---- MODULE Spec2Model ----
(***************************************************************************)
(* Model of ugf (src/ugf.go): a pattern store of one JSON file per name,   *)
(* and the synthesis of the search command from a stored record.           *)
(*                                                                         *)
(* A Go string is a sequence of one-character tokens; <<>> is "".  A JSON  *)
(* string literal in a pattern file is a sequence of literal units: a      *)
(* character written as itself, or an escape such as EscLt.                *)
(***************************************************************************)
EXTENDS Integers, Sequences, FiniteSets, TLC

\* ------------------------------------------------------------------ bounds
MaxStrLen == 3      \* longest flags-string given to -save
MaxPatterns == 2    \* longest "patterns" list of a hand-written record
MaxFlags == 3       \* longest "flags" list decoded in SpecDecode

\* -------------------------------------------------------------- characters
BadByte == "0xFF"            \* a byte that is not valid UTF-8
ReplacementChar == "U+FFFD"  \* the Unicode replacement rune
EscLt == "\\u003c"           \* the JSON escape the encoder writes for <
EscBad == "\\ufffd"          \* the JSON escape the encoder writes for an invalid byte

\* mutant of IsSpace: only the blank separates fields
IsSpaceBlankOnly(c) == c = " "

\* unicode.IsSpace, as strings.Fields uses it
IsSpace(c) == c \in {" ", "\t", "\n"}

\* ---------------------------------------------------------- string helpers
RECURSIVE Join(_, _)
\* strings.Join(elems, sep)
Join(elems, sep) ==
    IF Len(elems) = 0 THEN <<>>
    ELSE IF Len(elems) = 1 THEN elems[1]
    ELSE elems[1] \o sep \o Join(Tail(elems), sep)

RECURSIVE FieldsFrom(_, _, _)
\* strings.Fields: scan s from the left, cur is the field being read
FieldsFrom(s, cur, out) ==
    IF Len(s) = 0
    THEN IF Len(cur) = 0 THEN out ELSE Append(out, cur)
    ELSE IF IsSpace(Head(s))
         THEN FieldsFrom(Tail(s), <<>>, IF Len(cur) = 0 THEN out ELSE Append(out, cur))
         ELSE FieldsFrom(Tail(s), Append(cur, Head(s)), out)

Fields(s) == FieldsFrom(s, <<>>, <<>>)

\* ------------------------------------------------ encoding/json, strings
\* What the encoder writes for one character of a Go string (HTML escaping
\* is on by default; an invalid UTF-8 byte is written as EscBad, the
\* escape of the replacement rune).
EncodeChar(c) ==
    IF c = "<" THEN EscLt
    ELSE IF c = BadByte THEN EscBad
    ELSE c

EncodeString(s) == [i \in 1..Len(s) |-> EncodeChar(s[i])]

\* What the decoder reads from one unit of a JSON string literal.
DecodeUnit(u) ==
    IF u = EscLt THEN "<"
    ELSE IF u = EscBad THEN ReplacementChar
    ELSE IF u = BadByte THEN ReplacementChar
    ELSE u

DecodeString(lit) == [i \in 1..Len(lit) |-> DecodeUnit(lit[i])]

\* ----------------------------------------------------------- JSON values
\* t: "null" (also an absent key), "str", "list", "num", "obj"
JNull == [t |-> "null"]
JNum == [t |-> "num"]
JObj == [t |-> "obj"]
JStr(lit) == [t |-> "str", s |-> lit]
JList(vs) == [t |-> "list", l |-> vs]

\* json.Unmarshal into a Go string field: null leaves the zero value, any
\* other non-string is a type error
StringField(v) ==
    IF v.t = "null" THEN [err |-> FALSE, val |-> <<>>]
    ELSE IF v.t = "str" THEN [err |-> FALSE, val |-> DecodeString(v.s)]
    ELSE [err |-> TRUE, val |-> <<>>]

\* json.Unmarshal into a Go []string field
StringListField(v) ==
    IF v.t = "null" THEN [err |-> FALSE, val |-> <<>>]
    ELSE IF v.t = "list"
    THEN [err |-> \E i \in 1..Len(v.l) : StringField(v.l[i]).err,
          val |-> [i \in 1..Len(v.l) |-> StringField(v.l[i]).val]]
    ELSE [err |-> TRUE, val |-> <<>>]

\* -------------------------------------------------------- program constants
Ugrep == <<"u", "g", "r", "e", "p">>   \* the default engine
Dot == <<".">>                         \* the default target path
DashE == <<"-", "e">>
Space == <<" ">>
Newline == <<"\n">>

\* the zero value of the pattern struct
ZeroPattern == [Flags |-> <<>>, Pattern |-> <<>>, Patterns |-> <<>>, Engine |-> <<>>]

\* a missing file, and the content of a file that is not a JSON object
NoFile == [exists |-> FALSE, wellformed |-> FALSE,
           flags |-> JNull, pattern |-> JNull, patterns |-> JNull, engine |-> JNull]
Garbage == [NoFile EXCEPT !.exists = TRUE]
JSONFile(f, p, ps, e) ==
    [exists |-> TRUE, wellformed |-> TRUE,
     flags |-> f, pattern |-> p, patterns |-> ps, engine |-> e]

RECURSIVE StringsOf(_)
\* the loop of UnmarshalJSON over a list: the string elements, in order
StringsOf(vs) ==
    IF Len(vs) = 0 THEN <<>>
    ELSE IF Head(vs).t = "str"
         THEN <<DecodeString(Head(vs).s)>> \o StringsOf(Tail(vs))
         ELSE StringsOf(Tail(vs))

\* the type switch of UnmarshalJSON on aux.Flags; p.Flags is nil before it
FlagsSwitch(v) ==
    IF v.t = "str"
    THEN IF DecodeString(v.s) # <<>> THEN Fields(DecodeString(v.s)) ELSE <<>>
    ELSE IF v.t = "list" THEN StringsOf(v.l)
    ELSE <<>>

\* pattern.UnmarshalJSON: [err, p]
UnmarshalJSON(data) ==
    LET pt == StringField(data.pattern)
        ps == StringListField(data.patterns)
        en == StringField(data.engine)
    IN  IF ~data.wellformed \/ pt.err \/ ps.err \/ en.err
        THEN [err |-> TRUE, p |-> ZeroPattern]
        ELSE [err |-> FALSE,
              p |-> [Flags |-> FlagsSwitch(data.flags), Pattern |-> pt.val,
                     Patterns |-> ps.val, Engine |-> en.val]]

\* json.Encoder.Encode of the pattern struct (every field is omitempty)
Encode(p) ==
    JSONFile(IF Len(p.Flags) = 0 THEN JNull
             ELSE JList([i \in 1..Len(p.Flags) |-> JStr(EncodeString(p.Flags[i]))]),
             IF p.Pattern = <<>> THEN JNull ELSE JStr(EncodeString(p.Pattern)),
             IF Len(p.Patterns) = 0 THEN JNull
             ELSE JList([i \in 1..Len(p.Patterns) |-> JStr(EncodeString(p.Patterns[i]))]),
             IF p.Engine = <<>> THEN JNull ELSE JStr(EncodeString(p.Engine)))

\* getPatternDir: fails when the current user cannot be determined
getPatternDir(userOK) == [err |-> ~userOK]

\* mutant of stdinIsPipe: the mode test never sees a pipe
stdinIsPipeNever(piped) == FALSE

\* stdinIsPipe: standard input is not a character device
stdinIsPipe(piped) == piped

\* mutant of NoPatterns: the emptiness test is lost
NoPatternsNever(p) == FALSE

\* the test of lines 113-115: the record holds no pattern at all
NoPatterns(p) == p.Pattern = <<>> /\ Len(p.Patterns) = 0

\* mutant of EffectivePattern: the alternation loses its parentheses
EffectivePatternNoParens(p) ==
    IF p.Pattern = <<>> THEN Join(p.Patterns, <<"|">>) ELSE p.Pattern

\* the pattern resolution of main: pat.Pattern after line 120
EffectivePattern(p) ==
    IF p.Pattern = <<>> THEN <<"(">> \o Join(p.Patterns, <<"|">>) \o <<")">>
    ELSE p.Pattern

\* the engine selection of main
Operator(p) == IF p.Engine = <<>> THEN Ugrep ELSE p.Engine

\* mutant of DashEPairs: the patterns without their -e
DashEPairsNoFlag(ps) == ps

RECURSIVE DashEPairs(_)
\* the loop appending "-e", p for each of the patterns
DashEPairs(ps) ==
    IF Len(ps) = 0 THEN <<>> ELSE <<DashE, Head(ps)>> \o DashEPairs(Tail(ps))

\* the argument vector of the real run; p is the record after resolution
RealArgs(p, operator, files, piped) ==
    IF operator = Ugrep /\ Len(p.Patterns) > 0
    THEN p.Flags \o DashEPairs(p.Patterns)
         \o (IF ~stdinIsPipe(piped) /\ files # <<>> THEN <<files>> ELSE <<>>)
    ELSE p.Flags \o <<p.Pattern>>
         \o (IF ~stdinIsPipe(piped) /\ files # <<>> THEN <<files>> ELSE <<>>)

\* fmt's %q on the characters of the model: strconv.Quote
QuoteChar(c) ==
    IF c = "\"" THEN <<"\\", "\"">>
    ELSE IF c = "\\" THEN <<"\\", "\\">>
    ELSE IF c = BadByte THEN <<"\\", "x", "f", "f">>
    ELSE <<c>>

RECURSIVE QuoteChars(_)
QuoteChars(s) ==
    IF Len(s) = 0 THEN <<>> ELSE QuoteChar(Head(s)) \o QuoteChars(Tail(s))

Quote(s) == <<"\"">> \o QuoteChars(s) \o <<"\"">>

\* the line the dump mode prints
DumpLine(p, operator, files) ==
    IF operator = Ugrep /\ Len(p.Patterns) > 0
    THEN operator \o Space
         \o Join(p.Flags \o DashEPairs(p.Patterns)
                 \o (IF files # <<>> THEN <<files>> ELSE <<>>), Space)
         \o Newline
    ELSE operator \o Space \o Join(p.Flags, Space) \o Space \o Quote(p.Pattern)
         \o Space \o files \o Newline

\* ------------------------------------------------------------------- state
VARIABLES
    store,     \* the pattern directory: name -> content of <name>.json
    saved,     \* name -> the arguments of the save that created the file
    inv,       \* the last invocation: mode, flag.Arg(0..2), stdin, user
    stderr,    \* the error the last invocation reported, NoErr if none
    stdout,    \* the text the last invocation printed
    execd,     \* the child process the last invocation ran
    dec,       \* the record as decoded at line 107
    pat,       \* the record after the resolution of lines 113-120
    decIn,     \* SpecDecode: the flags elements and the separator
    decOut     \* SpecDecode: the flags decoded from the list and string forms

vars == <<store, saved, inv, stderr, stdout, execd, dec, pat, decIn, decOut>>

NoErr == ""
ErrNoDir == "unable to open user's pattern directory"
ErrNoSuch == "no such pattern"
ErrMalformed == "pattern file is malformed"
ErrEmpty == "pattern file contains no pattern(s)"
ErrNameEmpty == "name cannot be empty"
ErrPatEmpty == "pattern cannot be empty"
ErrDir == "failed to determine pattern directory"
ErrCreate == "failed to create pattern file"

NoCmd == [ran |-> FALSE, path |-> <<>>, args |-> <<>>]
NoSave == [done |-> FALSE]
NoDecode == [done |-> FALSE]

Names == {<<>>, <<"x">>, <<"y">>}

\* filepath.Glob returns the matches sorted
NameOrder == << <<>>, <<"x">>, <<"y">> >>

Invocation(mode, a0, a1, a2, piped, userOK) ==
    [mode |-> mode, name |-> a0, arg1 |-> a1, arg2 |-> a2,
     piped |-> piped, userOK |-> userOK]

\* ---------------------------------------------------------------- list mode
RECURSIVE Existing(_, _)
\* the names of the files the glob of getPatterns matches in st, in order
Existing(st, order) ==
    IF Len(order) = 0 THEN <<>>
    ELSE (IF st[Head(order)].exists THEN <<Head(order)>> ELSE <<>>)
         \o Existing(st, Tail(order))

\* getPatterns: [err, out]
getPatterns(st, userOK) ==
    IF getPatternDir(userOK).err THEN [err |-> TRUE, out |-> <<>>]
    ELSE [err |-> FALSE, out |-> Existing(st, NameOrder)]

\* main with -list
ListMode(userOK) ==
    \E r \in {getPatterns(store, userOK)} :
    /\ inv' = Invocation("list", <<>>, <<>>, <<>>, FALSE, userOK)
    /\ stderr' = IF r.err THEN ErrDir ELSE NoErr
    /\ stdout' = IF r.err THEN <<>> ELSE Join(r.out, Newline) \o Newline
    /\ execd' = NoCmd
    /\ dec' = ZeroPattern
    /\ pat' = ZeroPattern
    /\ UNCHANGED <<store, saved, decIn, decOut>>

\* ---------------------------------------------------------------- save mode
\* mutant of OpenFileExcl: O_EXCL is missing, an existing file is opened
OpenFileNoExcl(st, name) == [err |-> FALSE]

\* os.OpenFile with O_RDWR|O_CREATE|O_EXCL: fails when the file exists
OpenFileExcl(st, name) == [err |-> st[name].exists]

\* savePattern: [err, store] with the store after the call
savePattern(st, name, flags, pattern, userOK) ==
    IF name = <<>> THEN [err |-> ErrNameEmpty, store |-> st]
    ELSE IF pattern = <<>> THEN [err |-> ErrPatEmpty, store |-> st]
    ELSE IF getPatternDir(userOK).err THEN [err |-> ErrDir, store |-> st]
    ELSE IF OpenFileExcl(st, name).err THEN [err |-> ErrCreate, store |-> st]
    ELSE [err |-> NoErr,
          store |-> [st EXCEPT ![name] =
                        Encode([ZeroPattern EXCEPT !.Flags = Fields(flags),
                                                   !.Pattern = pattern])]]

\* main with -save
SaveMode(name, flags, pattern, userOK) ==
    \E r \in {savePattern(store, name, flags, pattern, userOK)} :
    /\ inv' = Invocation("save", name, flags, pattern, FALSE, userOK)
    /\ store' = r.store
    /\ saved' = IF r.err = NoErr
                THEN [saved EXCEPT ![name] =
                         [done |-> TRUE, flags |-> flags, pat |-> pattern]]
                ELSE saved
    /\ stderr' = r.err
    /\ stdout' = <<>>
    /\ execd' = NoCmd
    /\ dec' = ZeroPattern
    /\ pat' = ZeroPattern
    /\ UNCHANGED <<decIn, decOut>>

\* ----------------------------------------------------------------- run mode
\* main from line 85 on: the outcome [err, out, cmd, dec, pat] of one run
RunOutcome(st, dumpMode, patName, arg1, piped, userOK) ==
    LET files == IF arg1 = <<>> THEN Dot ELSE arg1
        none == [err |-> NoErr, out |-> <<>>, cmd |-> NoCmd,
                 dec |-> ZeroPattern, pat |-> ZeroPattern]
        d == UnmarshalJSON(st[patName])
        p == [d.p EXCEPT !.Pattern = EffectivePattern(d.p)]
        operator == Operator(p)
    IN  IF getPatternDir(userOK).err THEN [none EXCEPT !.err = ErrNoDir]
        ELSE IF ~st[patName].exists THEN [none EXCEPT !.err = ErrNoSuch]
        ELSE IF d.err THEN [none EXCEPT !.err = ErrMalformed]
        ELSE IF NoPatterns(d.p)
        THEN [none EXCEPT !.err = ErrEmpty, !.dec = d.p, !.pat = d.p]
        ELSE IF dumpMode
        THEN [none EXCEPT !.out = DumpLine(p, operator, files),
                          !.dec = d.p, !.pat = p]
        ELSE [none EXCEPT !.cmd = [ran |-> TRUE, path |-> operator,
                                   args |-> RealArgs(p, operator, files, piped)],
                          !.dec = d.p, !.pat = p]

\* main without -list and -save
RunMode(dumpMode, patName, arg1, piped, userOK) ==
    \E r \in {RunOutcome(store, dumpMode, patName, arg1, piped, userOK)} :
    /\ inv' = Invocation(IF dumpMode THEN "dump" ELSE "run",
                         patName, arg1, <<>>, piped, userOK)
    /\ stderr' = r.err
    /\ stdout' = r.out
    /\ execd' = r.cmd
    /\ dec' = r.dec
    /\ pat' = r.pat
    /\ UNCHANGED <<store, saved, decIn, decOut>>

\* -------------------------------------------------------------- input sets
SeqsUpTo(S, n) == UNION {[1..k -> S] : k \in 0..n}

DashH == <<"-", "H">>
DashN == <<"-", "n">>
Todo == <<"T", "O", "D", "O">>
Foo == <<"f", "o", "o">>
Bar == <<"b", "a", "r">>
Grep == <<"g", "r", "e", "p">>
Src == <<".", "/", "s", "r", "c">>

\* the records a user may have written by hand into <name>.json
HWFlags == {JNull, JStr(DashH \o <<" ", " ">> \o DashN),
            JList(<<JStr(DashH), JNum, JStr(DashN)>>), JNum, JObj}
HWPattern == {JNull, JStr(Todo)}
HWPatterns == {JNull} \cup {JList(l) : l \in SeqsUpTo({JStr(Foo), JStr(Bar)}, MaxPatterns) \ {<<>>}}
HWEngine == {JNull, JStr(Ugrep), JStr(Grep)}
HandWritten ==
    {JSONFile(f, p, ps, e) : f \in HWFlags, p \in HWPattern, ps \in HWPatterns, e \in HWEngine}
    \cup {Garbage}

Targets == {<<>>, Src}            \* flag.Arg(1) of a run
SaveFlags == {DashH \o Space \o DashN}   \* flag.Arg(1) of a save
SavePats == {<<>>, Todo}          \* flag.Arg(2) of a save

\* SpecStore: every flags-string up to MaxStrLen, patterns with an HTML
\* character and with a byte that is not UTF-8
FlagChars == {"h", " "}
FlagStrings == SeqsUpTo(FlagChars, MaxStrLen)
PatStrings == {<<>>, <<"a", "<">>, <<"a", BadByte>>}
StoreNames == {<<>>, <<"x">>}

\* SpecDecode: the elements of a flags list, and the whitespace that joins
\* the tokens of the string form
FlagElems == {JStr(DashH), JStr(<<"-", EscLt>>), JNum, JObj, JNull}
Separators == {<<" ">>, <<"\t">>, <<" ", " ">>}

\* ---------------------------------------------------------- specifications
Quiet ==
    /\ saved = [n \in Names |-> NoSave]
    /\ inv = Invocation("none", <<>>, <<>>, <<>>, FALSE, TRUE)
    /\ stderr = NoErr
    /\ stdout = <<>>
    /\ execd = NoCmd
    /\ dec = ZeroPattern
    /\ pat = ZeroPattern
    /\ decIn = [elems |-> <<>>, sep |-> <<" ">>]
    /\ decOut = NoDecode

\* x.json is absent or any hand-written file; nothing else is stored
Init ==
    /\ \E f \in HandWritten \cup {NoFile} :
          store = [n \in Names |-> IF n = <<"x">> THEN f ELSE NoFile]
    /\ Quiet

Next ==
    \/ \E userOK \in BOOLEAN : ListMode(userOK)
    \/ \E name \in Names, flags \in SaveFlags, pattern \in SavePats, userOK \in BOOLEAN :
          SaveMode(name, flags, pattern, userOK)
    \/ \E dumpMode \in BOOLEAN, patName \in Names, arg1 \in Targets, piped \in BOOLEAN :
          RunMode(dumpMode, patName, arg1, piped, TRUE)
    \/ \E dumpMode \in BOOLEAN, patName \in Names :
          RunMode(dumpMode, patName, <<>>, FALSE, FALSE)

Spec == Init /\ [][Next]_vars

\* the store starts empty and is filled by saves only
InitStore ==
    /\ store = [n \in Names |-> NoFile]
    /\ Quiet

NextStore ==
    \/ ListMode(TRUE)
    \/ \E name \in StoreNames, flags \in FlagStrings, pattern \in PatStrings :
          SaveMode(name, flags, pattern, TRUE)
    \/ \E dumpMode \in BOOLEAN, patName \in StoreNames, piped \in BOOLEAN :
          RunMode(dumpMode, patName, <<>>, piped, TRUE)

SpecStore == InitStore /\ [][NextStore]_vars

\* the two encodings of one flags value, decoded by UnmarshalJSON
StringElems(elems) == SelectSeq(elems, LAMBDA v : v.t = "str")

ListForm(elems) == JSONFile(JList(elems), JStr(Todo), JNull, JNull)

StringForm(elems, sep) ==
    LET toks == StringElems(elems) IN
    JSONFile(JStr(Join([i \in 1..Len(toks) |-> toks[i].s], sep)), JStr(Todo), JNull, JNull)

DecodeBoth ==
    /\ decOut' = [done |-> TRUE,
                  list |-> UnmarshalJSON(ListForm(decIn.elems)),
                  str |-> UnmarshalJSON(StringForm(decIn.elems, decIn.sep))]
    /\ UNCHANGED <<store, saved, inv, stderr, stdout, execd, dec, pat, decIn>>

InitDecode ==
    /\ store = [n \in Names |-> NoFile]
    /\ saved = [n \in Names |-> NoSave]
    /\ inv = Invocation("none", <<>>, <<>>, <<>>, FALSE, TRUE)
    /\ stderr = NoErr
    /\ stdout = <<>>
    /\ execd = NoCmd
    /\ dec = ZeroPattern
    /\ pat = ZeroPattern
    /\ decIn \in [elems : SeqsUpTo(FlagElems, MaxFlags), sep : Separators]
    /\ decOut = NoDecode

NextDecode == DecodeBoth

SpecDecode == InitDecode /\ [][NextDecode]_vars

\* ------------------------------------------------------------------ claims
\* the last invocation was a real run that reached command synthesis
RealRun == inv.mode = "run" /\ execd.ran

\* the target path of the last run: "." when the caller gave none
TargetPath == IF inv.arg1 = <<>> THEN Dot ELSE inv.arg1

\* the decoded record takes the multi-pattern render strategy
MultiPath == dec.Engine \in {<<>>, Ugrep} /\ Len(dec.Patterns) > 0

\* the element the real run appends for the target path
TargetTail == IF inv.piped THEN <<>> ELSE <<TargetPath>>

\* ("-e", p) for each p of ps, in order
EPairs(ps) == [i \in 1..(2 * Len(ps)) |-> IF i % 2 = 1 THEN DashE ELSE ps[i \div 2]]

\* C1: in a real run that reaches command synthesis the target path ("." when
\* none is given) is the last element of the argument vector exactly when
\* stdin is not a pipe; when stdin is a pipe nothing is appended after the
\* flags and patterns, in both render strategies.
C1_TargetPathIffNotPiped ==
    RealRun =>
        LET body == Len(dec.Flags) + (IF MultiPath THEN 2 * Len(dec.Patterns) ELSE 1)
            n == Len(execd.args)
        IN  IF inv.piped
            THEN n = body
            ELSE n = body + 1 /\ execd.args[n] = TargetPath

C1_Witness ==
    /\ RealRun /\ inv.piped /\ inv.arg1 = Src
    /\ MultiPath /\ Len(dec.Flags) = 2

\* C2: for a record with a non-empty patterns list and the default engine the
\* real argument vector is the flags, then ("-e", p) for each pattern in
\* order, then the target path if stdin is not a pipe; patterns [foo, bar]
\* with no flags and no target give ["-e","foo","-e","bar","."].
C2_MultiPatternArgs ==
    /\ (RealRun /\ MultiPath) =>
          /\ execd.path = Ugrep
          /\ execd.args = dec.Flags \o EPairs(dec.Patterns) \o TargetTail
    /\ (/\ inv.mode = "run" /\ inv.userOK /\ inv.arg1 = <<>> /\ ~inv.piped
        /\ store[inv.name] = JSONFile(JNull, JNull, JList(<<JStr(Foo), JStr(Bar)>>), JNull))
       => execd = [ran |-> TRUE, path |-> Ugrep,
                   args |-> <<DashE, Foo, DashE, Bar, Dot>>]

C2_Witness ==
    /\ RealRun /\ inv.arg1 = <<>> /\ ~inv.piped
    /\ store[inv.name] = JSONFile(JNull, JNull, JList(<<JStr(Foo), JStr(Bar)>>), JNull)

\* C3: for a record with an empty patterns list, or with an engine other than
\* the default, the real argument vector is the flags, then the effective
\* pattern as one element, then the target path if stdin is not a pipe; the
\* effective pattern is the pattern field when it is non-empty and otherwise
\* "(" + the patterns joined by "|" + ")".
C3_SinglePatternArgs ==
    (RealRun /\ ~MultiPath) =>
        LET eff == IF dec.Pattern # <<>> THEN dec.Pattern
                   ELSE <<"(">> \o Join(dec.Patterns, <<"|">>) \o <<")">>
        IN  /\ execd.path = (IF dec.Engine = <<>> THEN Ugrep ELSE dec.Engine)
            /\ execd.args = dec.Flags \o <<eff>> \o TargetTail

C3_Witness ==
    /\ RealRun /\ execd.path = Grep /\ ~inv.piped
    /\ dec.Pattern = <<>> /\ dec.Patterns = <<Foo, Bar>>
    /\ execd.args = <<DashH, DashN, <<"(", "f", "o", "o", "|", "b", "a", "r", ")">>, Dot>>

C5_SaveLoadRoundTrip ==
    (inv.mode \in {"run", "dump"} /\ saved[inv.name].done) =>
        /\ stderr = NoErr
        /\ pat.Pattern = saved[inv.name].pat
        /\ pat.Flags = Fields(saved[inv.name].flags)
        /\ Operator(pat) = Ugrep

\* C6: a record whose flags value is neither absent, a string nor a list is
\* rejected as malformed, and no search is performed.
C6_WrongFlagsTypeRejected ==
    (/\ inv.mode \in {"run", "dump"} /\ inv.userOK
     /\ store[inv.name].exists /\ store[inv.name].wellformed
     /\ store[inv.name].flags.t \notin {"null", "str", "list"})
    => (stderr = ErrMalformed /\ ~execd.ran /\ stdout = <<>>)

\* C7: the list form and the string form of the same tokens decode to the
\* same flag sequence; in the list form the elements that are not strings
\* are dropped without error and the strings keep their order.
C7_FlagEncodingsAgree ==
    decOut.done =>
        LET toks == StringElems(decIn.elems) IN
        /\ ~decOut.list.err
        /\ decOut.list.p.Flags = [i \in 1..Len(toks) |-> DecodeString(toks[i].s)]
        /\ (Len(toks) = Len(decIn.elems)) =>
              (~decOut.str.err /\ decOut.str.p.Flags = decOut.list.p.Flags)

C7_Witness ==
    /\ decOut.done
    /\ decIn.sep = <<"\t">>
    /\ decOut.str.p.Flags = <<DashH, <<"-", "<">>, DashH>>
    /\ decOut.list.p.Flags = <<DashH, <<"-", "<">>, DashH>>

\* C8: when the pattern directory cannot be resolved, the named file does not
\* exist, the file is not well-formed, or the record has both pattern and
\* patterns empty, an error is reported, no dry-run line is printed and no
\* child process is executed; and no invocation that reports an error prints
\* a dry-run line or executes a child.
C8_ErrorsAreTerminal ==
    /\ (/\ inv.mode \in {"run", "dump"}
        /\ \/ ~inv.userOK
           \/ ~store[inv.name].exists
           \/ ~store[inv.name].wellformed
           \/ (store[inv.name].pattern.t = "null" /\ store[inv.name].patterns.t = "null"))
       => (stderr # NoErr /\ stdout = <<>> /\ ~execd.ran)
    /\ stderr # NoErr => (stdout = <<>> /\ ~execd.ran)

C8_Witness ==
    /\ inv.mode = "run" /\ inv.userOK /\ stderr = ErrEmpty
    /\ store[inv.name].wellformed /\ store[inv.name].flags.t = "list"

\* C9: every record that reaches command synthesis has exactly one of
\* pattern / patterns non-empty.
C9_ExactlyOnePatternForm ==
    (inv.mode \in {"run", "dump"} /\ (execd.ran \/ stdout # <<>>))
    => ((dec.Pattern # <<>>) # (Len(dec.Patterns) > 0))

\* C10: on the multi-pattern + default-engine path the dry-run line is the
\* engine name followed by the space-joined argument vector the real run
\* builds for the same record, target path and stdin state.
C10_DumpMatchesRealArgs ==
    (inv.mode = "dump" /\ stdout # <<>> /\ MultiPath)
    => stdout = Ugrep \o Space
                \o Join(RealArgs(pat, Ugrep, TargetPath, inv.piped), Space)
                \o Newline

====
